---- MODULE Spec2Model ----
(***************************************************************************)
(* A model of parse_comments.py: the three comment scanners c_style,       *)
(* py_style and xml_style (generators that read a file line by line and    *)
(* yield (comment, line number, column) tuples) and check_file, which      *)
(* picks a scanner from the file name.                                     *)
(*                                                                         *)
(* A line is a sequence of one-character strings.  Python indexes from 0,  *)
(* TLA+ from 1: every operator below takes and returns Python (0-based)    *)
(* indices and converts where it touches the sequence.                     *)
(***************************************************************************)
EXTENDS Integers, Sequences, FiniteSets, TLC

\* ------------------------------------------------------------------ bounds
\* longest line (newline included) of the exhaustively enumerated lines
MaxLen == 3
\* most lines a modelled file has
MaxLines == 3
\* most lines of a file two generators are run over
MaxTwinLines == 2
\* SPACES_FOR_TAB as the module sets it
DefaultTab == 4
\* the values the user may have given SPACES_FOR_TAB before the scan
TabWidths == {1, 2, DefaultTab}

\* ------------------------------------------------- Python string built-ins
Min(S) == CHOOSE x \in S : \A y \in S : x <= y

\* line[i], a negative i counting from the end as Python does
PyAt(l, i) == IF i < 0 THEN l[Len(l) + i + 1] ELSE l[i + 1]

\* line[a:b] for 0 <= a, clipped to the line
Slice(l, a, b) == SubSeq(l, a + 1, IF b < Len(l) THEN b ELSE Len(l))

\* line[a:]
SliceFrom(l, a) == SubSeq(l, a + 1, Len(l))

\* line[i:i+len(sub)] == sub
StartsAt(l, sub, i) ==
    /\ i + Len(sub) <= Len(l)
    /\ SubSeq(l, i + 1, i + Len(sub)) = sub

\* line.find(sub, start): the lowest index >= start where sub begins, or -1
Find(l, sub, start) ==
    LET S == {i \in start..(Len(l) - Len(sub)) : StartsAt(l, sub, i)}
    IN  IF S = {} THEN -1 ELSE Min(S)

\* sub in line
Contains(l, sub) == Find(l, sub, 0) # -1

\* line.count(ch, a, b): occurrences of the character in line[a:b]
Count(l, ch, a, b) ==
    Cardinality({i \in a..((IF b < Len(l) THEN b ELSE Len(l)) - 1) : l[i + 1] = ch})

\* ----------------------------------------------------------------- state
VARIABLES
    src_file,        \* check_file's and the scanners' src_file: the path,
                     \* then the open file
    fn,              \* the generator function check_file returned, "None"
                     \* if it returned None
    SPACES_FOR_TAB,  \* the module variable
    pc,              \* "check_file": check_file is called; "returned": it
                     \* returned None; "start": the generator is created
                     \* and has not run; "for": at the for statement; "while": at the head of
                     \* the while loop; "eol": the line is finished;
                     \* "done": the generator is exhausted; "error": an
                     \* exception left the generator
    line_num,        \* local line_num
    state,           \* local state
    line,            \* local line (the line last read from the file)
    index,           \* local index
    string_start,    \* c_style: the quote character that opened the string
    block_start,     \* py_style: the triple quote that opened the block
    comment_block,   \* py_style: local comment_block ("True", "False")
    nread,           \* lines read from the file so far (position of `line`)
    entry,           \* state when `line` was read
    yielded,         \* the tuples yielded while scanning `line`, in order
    last,            \* line number of the tuple yielded last while scanning
                     \* earlier lines, 0 when there is none
    file,            \* two generators over one file: the lines of the file
                     \* either of them has read so far, and whether one of
                     \* them has met its end
    trail,           \* two generators over one file: every tuple the first
                     \* one has yielded and its state after each line
    twin             \* the second generator: its locals, the tuples of its
                     \* current line it has not yielded yet, every tuple it
                     \* has yielded and its state after each line

\* the variables of the first generator
scan == <<src_file, fn, SPACES_FOR_TAB, pc, line_num, state, line, index, string_start,
          block_start, comment_block, nread, entry, yielded, last>>

vars == <<src_file, fn, SPACES_FOR_TAB, pc, line_num, state, line, index, string_start,
          block_start, comment_block, nread, entry, yielded, last, file, trail, twin>>

\* a local variable no statement has assigned yet
Unbound == "unbound"
\* src_file once `with open(src_file) as src_file` has rebound it
FileObject == <<"<file>">>


\* ---------------------------------------------------------- the file read
\* every string over the alphabet A of at most n characters
RECURSIVE Strs(_, _)
Strs(A, n) ==
    IF n = 0 THEN {<<>>}
    ELSE LET P == Strs(A, n - 1) IN P \cup {Append(s, c) : s \in P, c \in A}

\* the lines over A of at most MaxLen characters: only the last line of a
\* file may lack its newline, and no line is empty
LinesOver(A) ==
    {Append(s, "\n") : s \in Strs(A, MaxLen - 1)} \cup (Strs(A, MaxLen) \ {<<>>})

CLineHello == <<"f","o","o","(",")",";"," ","/","/"," ","h","e","l","l","o">>
CLineStart == <<"/","*"," ","s","t","a","r","t","\n">>
CLineMiddle == <<"m","i","d","d","l","e","\n">>
CLineEnd == <<"e","n","d"," ","*","/">>
CLinePrintf == <<"p","r","i","n","t","f","(","\"","/","/"," ","n","o","t"," ","a"," ","c","o","m","m","e","n","t","\"",")",";">>
CLineTab == <<"\t","f","o","o"," ","/","/"," ","b","a","r">>
CLineTwo == <<"/","*"," ","a"," ","*","/"," ","/","*"," ","b"," ","*","/","\n">>
CLineCharLit == <<"'","\"","'"," ","/","/"," ","c","\n">>
CLineEscQuote == <<"\"","\\","\"","/","/","\""," ","/","*","\n">>
CLineEscBackslash == <<"\"","\\","\\","\""," ","/","/"," ","c","\n">>
CLineOpenString == <<"\""," ","/","/","\n">>
CLineCloseThenLine == <<"x"," ","*","/"," ","/","/"," ","y","\n">>
CLineTabsBetween == <<"/","*","*","/","\t","\t","/","*","*","/","\n">>

\* the lines a file given to c_style is made of
CLines ==
    LinesOver({"/", "*", "\"", "\t", "x"}) \cup
    {CLineHello, CLineStart, CLineMiddle, CLineEnd, CLinePrintf, CLineTab,
     CLineTwo, CLineCharLit, CLineEscQuote, CLineEscBackslash,
     CLineOpenString, CLineCloseThenLine, CLineTabsBetween}

PyLineNote == <<"x"," ","="," ","1"," "," ","#"," ","n","o","t","e">>
PyLineDoc == <<"'","'","'"," ","d","o","c"," ","'","'","'","\n">>
PyLineDocOpen == <<"\"","\"","\"","d","o","c","\n">>
PyLineDocClose == <<"e","n","d","\"","\"","\""," ","#"," ","c","\n">>
PyLineTwoHash == <<"#"," ","a"," ","#"," ","b","\n">>
PyLineHashQuote == <<"\t","#"," ","'","'","'","\n">>

\* the lines a file given to py_style is made of
PyLines ==
    LinesOver({"#", "'", "\t", "x"}) \cup
    {PyLineNote, PyLineDoc, PyLineDocOpen, PyLineDocClose, PyLineTwoHash,
     PyLineHashQuote}

XmlLineHi == <<"<","!","-","-"," ","h","i"," ","-","-",">">>
XmlLineTwo == <<"<","!","-","-"," ","a"," ","-","-",">"," ","<","!","-","-"," ","b"," ","-","-",">","\n">>
XmlLineTight == <<"<","!","-","-","-",">","\n">>
XmlLineOpen == <<"\t","<","!","-","-"," ","a","\n">>
XmlLineClose == <<"b"," ","-","-",">"," ","c","\n">>
XmlLineTabbed == <<"\t","<","!","-","-","\t","x","-","-",">","\n">>
XmlLineMixed == <<"<","!","-","-","-","-",">","\t","<","!","-","-","\n">>

\* the lines a file given to xml_style is made of
XmlLines ==
    LinesOver({"<", "!", "-", ">", "\t"}) \cup
    {XmlLineHi, XmlLineTwo, XmlLineTight, XmlLineOpen, XmlLineClose,
     XmlLineTabbed, XmlLineMixed}

\* --------------------------------------------------------------- check_file
\* str.lower() on the characters file names are made of here
LowerChar(c) ==
    CASE c = "A" -> "a" [] c = "C" -> "c" [] c = "H" -> "h" [] c = "L" -> "l"
      [] c = "M" -> "m" [] c = "P" -> "p" [] c = "R" -> "r" [] c = "S" -> "s"
      [] c = "T" -> "t" [] c = "X" -> "x" [] c = "Y" -> "y" [] OTHER -> c

\* faulty variant of Lower: the path compared as it is written
LowerKept(s) == s

\* src_file.lower()
Lower(s) == [i \in 1..Len(s) |-> LowerChar(s[i])]

\* s.endswith(suffix)
EndsWith(s, suffix) ==
    /\ Len(suffix) <= Len(s)
    /\ SubSeq(s, Len(s) - Len(suffix) + 1, Len(s)) = suffix

\* s.endswith((suffix, ...))
EndsWithAny(s, suffixes) == \E x \in suffixes : EndsWith(s, x)

\* the scanner check_file picks for a path, "None" when it picks none
Scanner(path) ==
    IF EndsWith(Lower(path), <<".", "p", "y">>) THEN "py_style"
    ELSE IF EndsWithAny(Lower(path),
                {<<".", "c", "p", "p">>, <<".", "c">>, <<".", "h">>})
         THEN "c_style"
    ELSE IF EndsWithAny(Lower(path),
                {<<".", "x", "m", "l">>, <<".", "h", "t", "m", "l">>,
                 <<".", "h", "t", "m">>})
         THEN "xml_style"
    ELSE "None"

\* str.upper() on one lower-case letter
UpperChar(c) ==
    CASE c = "a" -> "A" [] c = "c" -> "C" [] c = "h" -> "H" [] c = "l" -> "L"
      [] c = "m" -> "M" [] c = "p" -> "P" [] c = "r" -> "R" [] c = "s" -> "S"
      [] c = "t" -> "T" [] c = "x" -> "X" [] c = "y" -> "Y" [] OTHER -> c

\* every way of writing s in upper and lower case
RECURSIVE CaseVariants(_)
CaseVariants(s) ==
    IF s = <<>> THEN {<<>>}
    ELSE {<<c>> \o t : c \in {s[1], UpperChar(s[1])},
                       t \in CaseVariants(Tail(s))}

\* the endings of the paths given to check_file, in lower case
Endings ==
    {<<".", "p", "y">>, <<".", "c">>, <<".", "c", "p", "p">>, <<".", "h">>,
     <<".", "x", "m", "l">>, <<".", "h", "t", "m", "l">>,
     <<".", "h", "t", "m">>, <<".", "r", "s">>, <<".", "p", "y", "c">>,
     <<".", "h", "t">>, <<"p", "y">>, <<"_", "c">>, <<".">>, <<>>}

\* the paths given to check_file
Paths ==
    {stem \o e : stem \in {<<>>, <<"a">>, <<"A", ".", "c", "/", "s">>},
                 e \in UNION {CaseVariants(x) : x \in Endings}}

\* ------------------------------------------------------------ construction
\* no second generator has been created
NoTwin == [pc |-> "none"]

\* check_file(src_file) is called; SPACES_FOR_TAB is what the user left it
Init ==
    /\ src_file \in Paths
    /\ fn = "None"
    /\ SPACES_FOR_TAB \in TabWidths
    /\ pc = "check_file"
    /\ line_num = 1
    /\ state = 0
    /\ line = <<>>
    /\ index = 0
    /\ string_start = Unbound
    /\ block_start = Unbound
    /\ comment_block = Unbound
    /\ nread = 0
    /\ entry = 0
    /\ yielded = <<>>
    /\ last = 0
    /\ file = [lines |-> <<>>, closed |-> FALSE]
    /\ trail = [recs |-> <<>>, after |-> <<>>]
    /\ twin = NoTwin

\* check_file: return the generator of the scanner for the path, or None
check_file ==
    /\ pc = "check_file"
    /\ fn' = Scanner(src_file)
    /\ pc' = IF Scanner(src_file) = "None" THEN "returned" ELSE "start"
    /\ UNCHANGED <<src_file, SPACES_FOR_TAB, line_num, state, line, index,
                   string_start, block_start, comment_block, nread, entry,
                   yielded, last>>

\* the first next() on the generator: `with open(src_file) as src_file`,
\* line_num = 1, state = 0
Open ==
    /\ pc = "start"
    /\ src_file' = FileObject
    /\ line_num' = 1
    /\ state' = 0
    /\ pc' = "for"
    /\ UNCHANGED <<fn, SPACES_FOR_TAB, line, index, string_start,
                   block_start, comment_block, nread, entry, yielded, last>>

\* ------------------------------------------------- steps the scanners share
\* the lines of the files two generators are run over
TwinCLines ==
    {<<"\"", "\n">>, <<"/", "*", "\n">>, <<"*", "/", "\n">>, <<"\t", "\n">>,
     <<"/", "/", "x">>, CLineOpenString, CLineTwo, CLineTab}

TwinPyLines ==
    {<<"x", "\n">>, <<"'", "'", "'">>, PyLineDoc, PyLineDocOpen,
     PyLineDocClose, PyLineTwoHash, PyLineHashQuote, PyLineNote}

TwinXmlLines ==
    {<<"<", "!", "\n">>, XmlLineHi, XmlLineTwo, XmlLineTight, XmlLineOpen,
     XmlLineClose, XmlLineTabbed, XmlLineMixed}

TwinLines ==
    IF fn = "c_style" THEN TwinCLines
    ELSE IF fn = "py_style" THEN TwinPyLines
    ELSE TwinXmlLines

\* the file can get one more line: no generator has met its end and the
\* last line read ended in a newline
CanGrow ==
    /\ ~file.closed
    /\ Len(file.lines) < MaxTwinLines
    /\ IF file.lines = <<>> THEN TRUE
       ELSE LET l == file.lines[Len(file.lines)] IN l[Len(l)] = "\n"

\* the lines of U the for statement can bind next: any, for one generator
\* on its own; with a second generator, the line of the file the other one
\* has read already, or a further line if the file can get one
NextLines(U) ==
    IF twin.pc = "none" THEN U
    ELSE IF nread < Len(file.lines) THEN {file.lines[nread + 1]}
    ELSE IF CanGrow THEN TwinLines
    ELSE {}

\* `for line in src_file` has another line to give
CanRead ==
    /\ pc = "for"
    /\ nread < MaxLines

\* the for loop binds the next line l of the file
Read(l) ==
    /\ nread' = nread + 1
    /\ line' = l
    /\ entry' = state

\* `yield text, line_num, column`; `at` is the index in line where text starts
Yield(text, column, at, kind) ==
    yielded' = Append(yielded,
        [text |-> text, line |-> line_num, column |-> column, at |-> at,
         kind |-> kind, phys |-> nread])

\* the statement after the while loop, reached by its end or by break (and
\* the same statement before `continue`): the line is finished
EndOfLine ==
    /\ line_num' = line_num + 1
    /\ pc' = "eol"

\* back at the for statement after a line that ended in a newline.  What the
\* finished line left in line and index is dead from here on (both are
\* assigned before they are read again) and is dropped; the tuples it
\* yielded are with the consumer, of which the last line number is kept.
Continue ==
    /\ pc = "eol"
    /\ line[Len(line)] = "\n"
    /\ pc' = "for"
    /\ line' = <<>>
    /\ index' = 0
    /\ entry' = state
    /\ yielded' = <<>>
    /\ last' = IF yielded = <<>> THEN last ELSE yielded[Len(yielded)].line
    /\ UNCHANGED <<src_file, fn, SPACES_FOR_TAB, line_num, state, string_start,
                   block_start, comment_block, nread>>

\* the file has no further line (it has none after a line without newline):
\* the generator returns
Exhausted ==
    /\ IF pc = "eol" THEN line[Len(line)] # "\n" ELSE pc = "for"
    /\ pc' = "done"
    /\ UNCHANGED <<src_file, fn, SPACES_FOR_TAB, line_num, state, line, index,
                   string_start, block_start, comment_block, nread, entry,
                   yielded, last>>

\* ------------------------------------------------------------------ c_style
\* the line holds none of //, /* and */ and no block comment is open
CFastPath(l, st) ==
    /\ ~Contains(l, <<"/", "/">>)
    /\ ~Contains(l, <<"/", "*">>)
    /\ ~Contains(l, <<"*", "/">>)
    /\ st # 2

\* faulty variant of CColumn: a tab counted as SPACES_FOR_TAB further columns
CColumnTabWide(l, i) == i + 2 + Count(l, "\t", 0, i + 2) * SPACES_FOR_TAB

\* faulty variant of CColumn: the delimiter taken to be three characters wide
CColumnThree(l, i) == i + 3 + Count(l, "\t", 0, i + 2) * (SPACES_FOR_TAB - 1)

\* faulty variant of CColumn: a tab counted as one column
CColumnRaw(l, i) == i + 2

\* faulty variant of CColumn: the tabs counted are those after the delimiter
CColumnTabsAfter(l, i) ==
    i + 2 + Count(l, "\t", i + 2, Len(l)) * (SPACES_FOR_TAB - 1)

\* index + 2 + (line.count('\t', 0, index+2))*(SPACES_FOR_TAB-1)
CColumn(l, i) == i + 2 + Count(l, "\t", 0, i + 2) * (SPACES_FOR_TAB - 1)

\* faulty variant of c_style_skip: the skipped line is not counted
c_style_skip_uncounted ==
    /\ fn = "c_style"
    /\ CanRead
    /\ \E l \in NextLines(CLines) :
          /\ CFastPath(l, state)
          /\ Read(l)
    /\ pc' = "eol"
    /\ UNCHANGED <<src_file, fn, SPACES_FOR_TAB, line_num, state, index,
                   string_start, block_start, comment_block, yielded, last>>

\* the for loop reads a line and the fast path skips it
c_style_skip ==
    /\ fn = "c_style"
    /\ CanRead
    /\ \E l \in NextLines(CLines) :
          /\ CFastPath(l, state)
          /\ Read(l)
    /\ EndOfLine
    /\ UNCHANGED <<src_file, fn, SPACES_FOR_TAB, state, index, string_start,
                   block_start, comment_block, yielded, last>>

\* the for loop reads a line that is scanned from index 0
c_style_line ==
    /\ fn = "c_style"
    /\ CanRead
    /\ \E l \in NextLines(CLines) :
          /\ ~CFastPath(l, state)
          /\ Read(l)
    /\ index' = 0
    /\ pc' = "while"
    /\ UNCHANGED <<src_file, fn, SPACES_FOR_TAB, line_num, state, string_start,
                   block_start, comment_block, yielded, last>>

\* the while condition holds in c_style
CIn == fn = "c_style" /\ pc = "while" /\ index < Len(line) - 1

\* the while condition fails: the line is finished
c_style_end ==
    /\ fn = "c_style"
    /\ pc = "while"
    /\ ~(index < Len(line) - 1)
    /\ EndOfLine
    /\ UNCHANGED <<src_file, fn, SPACES_FOR_TAB, state, line, index, string_start,
                   block_start, comment_block, nread, entry, yielded, last>>

\* faulty variant of c_style_slashes: no break after the yield
c_style_slashes_on ==
    /\ fn = "c_style" /\ pc = "while" /\ index < Len(line) - 1
    /\ state = 0
    /\ StartsAt(line, <<"/", "/">>, index)
    /\ Yield(SliceFrom(line, index + 2), CColumn(line, index), index + 2, "//")
    /\ index' = index + 1
    /\ UNCHANGED <<src_file, fn, SPACES_FOR_TAB, pc, line_num, state, line,
                   string_start, block_start, comment_block, nread, entry,
                   last>>

\* state 0, `//`: yield the rest of the line and break
c_style_slashes ==
    /\ CIn
    /\ state = 0
    /\ StartsAt(line, <<"/", "/">>, index)
    /\ Yield(SliceFrom(line, index + 2), CColumn(line, index), index + 2, "//")
    /\ EndOfLine
    /\ UNCHANGED <<src_file, fn, SPACES_FOR_TAB, state, line, index, string_start,
                   block_start, comment_block, nread, entry, last>>

\* faulty variant of c_style_open: no break after the yield
c_style_open_on ==
    /\ fn = "c_style" /\ pc = "while" /\ index < Len(line) - 1
    /\ state = 0
    /\ StartsAt(line, <<"/", "*">>, index)
    /\ Find(line, <<"*", "/">>, index + 2) = -1
    /\ Yield(SliceFrom(line, index + 2), CColumn(line, index), index + 2, "/*")
    /\ state' = 2
    /\ index' = index + 1
    /\ UNCHANGED <<src_file, fn, SPACES_FOR_TAB, pc, line_num, line,
                   string_start, block_start, comment_block, nread, entry,
                   last>>

\* state 0, `/*` with no `*/` after it on the line: yield the rest of the
\* line, go to state 2 and break
c_style_open ==
    /\ CIn
    /\ state = 0
    /\ StartsAt(line, <<"/", "*">>, index)
    /\ Find(line, <<"*", "/">>, index + 2) = -1
    /\ Yield(SliceFrom(line, index + 2), CColumn(line, index), index + 2, "/*")
    /\ state' = 2
    /\ EndOfLine
    /\ UNCHANGED <<src_file, fn, SPACES_FOR_TAB, line, index, string_start,
                   block_start, comment_block, nread, entry, last>>

\* state 0, `/*` closed on the same line: yield what lies between, go on
\* after the `*/`
c_style_inline ==
    /\ CIn
    /\ state = 0
    /\ StartsAt(line, <<"/", "*">>, index)
    /\ LET pos == Find(line, <<"*", "/">>, index + 2)
       IN  /\ pos # -1
           /\ Yield(Slice(line, index + 2, pos), CColumn(line, index),
                    index + 2, "/**/")
           /\ index' = (pos + 1) + 1
    /\ state' = 0
    /\ UNCHANGED <<src_file, fn, SPACES_FOR_TAB, pc, line_num, line, string_start,
                   block_start, comment_block, nread, entry, last>>

\* faulty variant of c_style_quote: the quote is read over, state stays 0
c_style_quote_ignored ==
    /\ fn = "c_style" /\ pc = "while" /\ index < Len(line) - 1
    /\ state = 0
    /\ ~StartsAt(line, <<"/", "/">>, index)
    /\ ~StartsAt(line, <<"/", "*">>, index)
    /\ PyAt(line, index) \in {"\"", "'"}
    /\ string_start' = PyAt(line, index)
    /\ state' = 0
    /\ index' = index + 1
    /\ UNCHANGED <<src_file, fn, SPACES_FOR_TAB, pc, line_num, line,
                   block_start, comment_block, nread, entry, yielded, last>>

\* state 0, a quote character: remember it and go to state 1
c_style_quote ==
    /\ CIn
    /\ state = 0
    /\ ~StartsAt(line, <<"/", "/">>, index)
    /\ ~StartsAt(line, <<"/", "*">>, index)
    /\ PyAt(line, index) \in {"\"", "'"}
    /\ string_start' = PyAt(line, index)
    /\ state' = 1
    /\ index' = index + 1
    /\ UNCHANGED <<src_file, fn, SPACES_FOR_TAB, pc, line_num, line, block_start,
                   comment_block, nread, entry, yielded, last>>

\* state 0, any other character
c_style_code ==
    /\ CIn
    /\ state = 0
    /\ ~StartsAt(line, <<"/", "/">>, index)
    /\ ~StartsAt(line, <<"/", "*">>, index)
    /\ PyAt(line, index) \notin {"\"", "'"}
    /\ index' = index + 1
    /\ UNCHANGED <<src_file, fn, SPACES_FOR_TAB, pc, line_num, state, line,
                   string_start, block_start, comment_block, nread, entry,
                   yielded, last>>

\* (line[index] == string_start) and (line[index-1] != '\\')
CStringEnds(l, i, q) == PyAt(l, i) = q /\ PyAt(l, i - 1) # "\\"

\* state 1: the closing quote, or one more character of the string
c_style_string ==
    /\ CIn
    /\ state = 1
    /\ state' = IF CStringEnds(line, index, string_start) THEN 0 ELSE 1
    /\ index' = index + 1
    /\ UNCHANGED <<src_file, fn, SPACES_FOR_TAB, pc, line_num, line, string_start,
                   block_start, comment_block, nread, entry, yielded, last>>

\* state 2, no `*/` from index on: yield the rest of the line and break
c_style_block ==
    /\ CIn
    /\ state = 2
    /\ Find(line, <<"*", "/">>, index) = -1
    /\ Yield(SliceFrom(line, index), index, index, "block")
    /\ EndOfLine
    /\ UNCHANGED <<src_file, fn, SPACES_FOR_TAB, state, line, index, string_start,
                   block_start, comment_block, nread, entry, last>>

\* state 2, `*/` found: yield what precedes it, back to state 0
c_style_close ==
    /\ CIn
    /\ state = 2
    /\ LET pos == Find(line, <<"*", "/">>, index)
       IN  /\ pos # -1
           /\ Yield(Slice(line, index, pos), index, index, "close")
           /\ index' = (pos + 1) + 1
    /\ state' = 0
    /\ UNCHANGED <<src_file, fn, SPACES_FOR_TAB, pc, line_num, line, string_start,
                   block_start, comment_block, nread, entry, last>>

c_style ==
    \/ c_style_skip
    \/ c_style_line
    \/ c_style_end
    \/ c_style_slashes
    \/ c_style_open
    \/ c_style_inline
    \/ c_style_quote
    \/ c_style_code
    \/ c_style_string
    \/ c_style_block
    \/ c_style_close

\* ----------------------------------------------------------------- py_style
Hash == <<"#">>
Single3 == <<"'", "'", "'">>
Double3 == <<"\"", "\"", "\"">>

\* the line holds none of #, ''' and """ and no block is open
PyFastPath(l, st) ==
    /\ ~Contains(l, Hash)
    /\ ~Contains(l, Single3)
    /\ ~Contains(l, Double3)
    /\ st # 1

\* index + w + (line.count('\t', 0, index+2))*(SPACES_FOR_TAB-1), w the
\* width of the delimiter
PyColumn(l, i, w) == i + w + Count(l, "\t", 0, i + 2) * (SPACES_FOR_TAB - 1)

\* the for loop reads a line and the fast path skips it
py_style_skip ==
    /\ fn = "py_style"
    /\ CanRead
    /\ \E l \in NextLines(PyLines) :
          /\ PyFastPath(l, state)
          /\ Read(l)
    /\ EndOfLine
    /\ UNCHANGED <<src_file, fn, SPACES_FOR_TAB, state, index, string_start,
                   block_start, comment_block, yielded, last>>

\* the for loop reads a line that is scanned from index 0
py_style_line ==
    /\ fn = "py_style"
    /\ CanRead
    /\ \E l \in NextLines(PyLines) :
          /\ ~PyFastPath(l, state)
          /\ Read(l)
    /\ index' = 0
    /\ pc' = "while"
    /\ UNCHANGED <<src_file, fn, SPACES_FOR_TAB, line_num, state, string_start,
                   block_start, comment_block, yielded, last>>

\* the while condition holds in py_style
PyIn == fn = "py_style" /\ pc = "while" /\ index < Len(line) - 1

\* the while condition fails: the line is finished
py_style_end ==
    /\ fn = "py_style"
    /\ pc = "while"
    /\ ~(index < Len(line) - 1)
    /\ EndOfLine
    /\ UNCHANGED <<src_file, fn, SPACES_FOR_TAB, state, line, index, string_start,
                   block_start, comment_block, nread, entry, yielded, last>>

\* state 0, `#`: yield the rest of the line; `if comment_block` then reads
\* a bound (False) comment_block and the loop goes on with the next index
py_style_hash ==
    /\ PyIn
    /\ state = 0
    /\ PyAt(line, index) = "#"
    /\ Yield(SliceFrom(line, index + 1), PyColumn(line, index, 1), index + 1,
             "#")
    /\ comment_block # Unbound
    /\ state' = 0
    /\ index' = index + 1
    /\ UNCHANGED <<src_file, fn, SPACES_FOR_TAB, pc, line_num, line, string_start,
                   block_start, comment_block, nread, entry, last>>

\* state 0, `#`, no triple quote met so far: the tuple is yielded, then
\* `if comment_block` reads a local that was never assigned
\* (UnboundLocalError)
py_style_hash_raise ==
    /\ PyIn
    /\ state = 0
    /\ PyAt(line, index) = "#"
    /\ Yield(SliceFrom(line, index + 1), PyColumn(line, index, 1), index + 1,
             "#")
    /\ comment_block = Unbound
    /\ state' = 0
    /\ pc' = "error"
    /\ UNCHANGED <<src_file, fn, SPACES_FOR_TAB, line_num, line, index, string_start,
                   block_start, comment_block, nread, entry, last>>

\* the triple quote at line[index:index+3], if there is one
PyQuoteAt(l, i) ==
    IF StartsAt(l, Single3, i) THEN Single3
    ELSE IF StartsAt(l, Double3, i) THEN Double3
    ELSE <<>>

\* state 0, a triple quote not closed on the line: yield the rest of the
\* line, go to state 1 and break
py_style_open ==
    /\ PyIn
    /\ state = 0
    /\ PyAt(line, index) # "#"
    /\ PyQuoteAt(line, index) # <<>>
    /\ block_start' = PyQuoteAt(line, index)
    /\ comment_block' = "False"
    /\ Find(line, PyQuoteAt(line, index), index + 3) = -1
    /\ Yield(SliceFrom(line, index + 3), PyColumn(line, index, 3), index + 3,
             "'''")
    /\ state' = 1
    /\ EndOfLine
    /\ UNCHANGED <<src_file, fn, SPACES_FOR_TAB, line, index, string_start, nread,
                   entry, last>>

\* state 0, a triple quote closed on the same line: yield what lies
\* between, go on after the closing quote
py_style_inline ==
    /\ PyIn
    /\ state = 0
    /\ PyAt(line, index) # "#"
    /\ PyQuoteAt(line, index) # <<>>
    /\ block_start' = PyQuoteAt(line, index)
    /\ comment_block' = "False"
    /\ LET pos == Find(line, PyQuoteAt(line, index), index + 3)
       IN  /\ pos # -1
           /\ Yield(Slice(line, index + 3, pos), PyColumn(line, index, 3),
                    index + 3, "''''''")
           /\ index' = (pos + 2) + 1
    /\ state' = 0
    /\ UNCHANGED <<src_file, fn, SPACES_FOR_TAB, pc, line_num, line, string_start,
                   nread, entry, last>>

\* state 0, any other character, comment_block bound (False)
py_style_code ==
    /\ PyIn
    /\ state = 0
    /\ PyAt(line, index) # "#"
    /\ PyQuoteAt(line, index) = <<>>
    /\ comment_block # Unbound
    /\ index' = index + 1
    /\ UNCHANGED <<src_file, fn, SPACES_FOR_TAB, pc, line_num, state, line,
                   string_start, block_start, comment_block, nread, entry,
                   yielded, last>>

\* state 0, any other character, no triple quote met so far:
\* `if comment_block` reads a local that was never assigned
py_style_code_raise ==
    /\ PyIn
    /\ state = 0
    /\ PyAt(line, index) # "#"
    /\ PyQuoteAt(line, index) = <<>>
    /\ comment_block = Unbound
    /\ pc' = "error"
    /\ UNCHANGED <<src_file, fn, SPACES_FOR_TAB, line_num, state, line, index,
                   string_start, block_start, comment_block, nread, entry,
                   yielded, last>>

\* state 1, no closing quote from index on: yield the rest of the line and
\* break
py_style_block ==
    /\ PyIn
    /\ state = 1
    /\ Find(line, block_start, index) = -1
    /\ Yield(SliceFrom(line, index), index, index, "block")
    /\ EndOfLine
    /\ UNCHANGED <<src_file, fn, SPACES_FOR_TAB, state, line, index, string_start,
                   block_start, comment_block, nread, entry, last>>

\* state 1, the closing quote found: yield what precedes it, back to state 0
py_style_close ==
    /\ PyIn
    /\ state = 1
    /\ LET pos == Find(line, block_start, index)
       IN  /\ pos # -1
           /\ Yield(Slice(line, index, pos), index, index, "close")
           /\ index' = (pos + 2) + 1
    /\ state' = 0
    /\ UNCHANGED <<src_file, fn, SPACES_FOR_TAB, pc, line_num, line, string_start,
                   block_start, comment_block, nread, entry, last>>

py_style ==
    \/ py_style_skip
    \/ py_style_line
    \/ py_style_end
    \/ py_style_hash
    \/ py_style_hash_raise
    \/ py_style_open
    \/ py_style_inline
    \/ py_style_code
    \/ py_style_code_raise
    \/ py_style_block
    \/ py_style_close

\* ---------------------------------------------------------------- xml_style
XmlOpen == <<"<", "!", "-", "-">>
XmlClose == <<"-", "-", ">">>

\* the line holds neither <!-- nor --> and no comment is open
XmlFastPath(l, st) ==
    /\ ~Contains(l, XmlOpen)
    /\ ~Contains(l, XmlClose)
    /\ st # 1

\* index + 4 + (line.count('\t', 0, index+2))*(SPACES_FOR_TAB-1)
XmlColumn(l, i) == i + 4 + Count(l, "\t", 0, i + 2) * (SPACES_FOR_TAB - 1)

\* the for loop reads a line and the fast path skips it
xml_style_skip ==
    /\ fn = "xml_style"
    /\ CanRead
    /\ \E l \in NextLines(XmlLines) :
          /\ XmlFastPath(l, state)
          /\ Read(l)
    /\ EndOfLine
    /\ UNCHANGED <<src_file, fn, SPACES_FOR_TAB, state, index, string_start,
                   block_start, comment_block, yielded, last>>

\* the for loop reads a line that is scanned from index 0
xml_style_line ==
    /\ fn = "xml_style"
    /\ CanRead
    /\ \E l \in NextLines(XmlLines) :
          /\ ~XmlFastPath(l, state)
          /\ Read(l)
    /\ index' = 0
    /\ pc' = "while"
    /\ UNCHANGED <<src_file, fn, SPACES_FOR_TAB, line_num, state, string_start,
                   block_start, comment_block, yielded, last>>

\* the while condition holds in xml_style
XmlIn == fn = "xml_style" /\ pc = "while" /\ index < Len(line) - 1

\* the while condition fails: the line is finished
xml_style_end ==
    /\ fn = "xml_style"
    /\ pc = "while"
    /\ ~(index < Len(line) - 1)
    /\ EndOfLine
    /\ UNCHANGED <<src_file, fn, SPACES_FOR_TAB, state, line, index, string_start,
                   block_start, comment_block, nread, entry, yielded, last>>

\* faulty variant of XmlInlineText: the text cut at the closing marker
XmlInlineTextCut(l, i, pos) == Slice(l, i + 4, pos)

\* the text yielded for a `<!--` at index i whose `-->` is at pos
XmlInlineText(l, i, pos) == SliceFrom(l, i + 4)

\* state 0, `<!--` with no `-->` after it on the line: yield the rest of
\* the line, go to state 1 and break
xml_style_open ==
    /\ XmlIn
    /\ state = 0
    /\ StartsAt(line, XmlOpen, index)
    /\ Find(line, XmlClose, index + 3) = -1
    /\ Yield(SliceFrom(line, index + 4), XmlColumn(line, index), index + 4,
             "<!--")
    /\ state' = 1
    /\ EndOfLine
    /\ UNCHANGED <<src_file, fn, SPACES_FOR_TAB, line, index, string_start,
                   block_start, comment_block, nread, entry, last>>

\* state 0, `<!--` with a `-->` on the same line: yield line[index+4:],
\* column index + 4, and go on after the `-->`
xml_style_inline ==
    /\ XmlIn
    /\ state = 0
    /\ StartsAt(line, XmlOpen, index)
    /\ LET pos == Find(line, XmlClose, index + 3)
       IN  /\ pos # -1
           /\ Yield(XmlInlineText(line, index, pos), index + 4, index + 4,
                    "<!---->")
           /\ index' = (pos + 2) + 1
    /\ state' = 0
    /\ UNCHANGED <<src_file, fn, SPACES_FOR_TAB, pc, line_num, line, string_start,
                   block_start, comment_block, nread, entry, last>>

\* state 0, any other character
xml_style_text ==
    /\ XmlIn
    /\ state = 0
    /\ ~StartsAt(line, XmlOpen, index)
    /\ index' = index + 1
    /\ UNCHANGED <<src_file, fn, SPACES_FOR_TAB, pc, line_num, state, line,
                   string_start, block_start, comment_block, nread, entry,
                   yielded, last>>

\* state 1, no `-->` from index on: yield the rest of the line and break
xml_style_block ==
    /\ XmlIn
    /\ state = 1
    /\ Find(line, XmlClose, index) = -1
    /\ Yield(SliceFrom(line, index), index, index, "block")
    /\ EndOfLine
    /\ UNCHANGED <<src_file, fn, SPACES_FOR_TAB, state, line, index, string_start,
                   block_start, comment_block, nread, entry, last>>

\* state 1, `-->` found: yield what precedes it, back to state 0
xml_style_close ==
    /\ XmlIn
    /\ state = 1
    /\ LET pos == Find(line, XmlClose, index)
       IN  /\ pos # -1
           /\ Yield(Slice(line, index, pos), index, index, "close")
           /\ index' = (pos + 2) + 1
    /\ state' = 0
    /\ UNCHANGED <<src_file, fn, SPACES_FOR_TAB, pc, line_num, line, string_start,
                   block_start, comment_block, nread, entry, last>>

xml_style ==
    \/ xml_style_skip
    \/ xml_style_line
    \/ xml_style_end
    \/ xml_style_open
    \/ xml_style_inline
    \/ xml_style_text
    \/ xml_style_block
    \/ xml_style_close

\* ------------------------------------------- two generators over one file
\* A second generator of the same function runs over the same file while
\* the first one runs; the consumer takes tuples from either in any order.
\* What the second one does between two of its yields is not visible from
\* outside, so it takes a whole line in one step.

\* the tuple as the consumer gets it
Tuple(text, n, column) == [text |-> text, line |-> n, column |-> column]

\* c_style's while loop on line l, number n, from index i on; f holds the
\* locals and the tuples yielded so far
RECURSIVE CScan(_, _, _, _)
CScan(l, n, i, f) ==
    IF ~(i < Len(l) - 1) THEN f
    ELSE IF f.state = 0 THEN
        IF StartsAt(l, <<"/", "/">>, i) THEN
            [f EXCEPT !.recs =
                Append(@, Tuple(SliceFrom(l, i + 2), n, CColumn(l, i)))]
        ELSE IF StartsAt(l, <<"/", "*">>, i) THEN
            LET pos == Find(l, <<"*", "/">>, i + 2)
            IN  IF pos = -1
                THEN [f EXCEPT !.state = 2, !.recs =
                        Append(@, Tuple(SliceFrom(l, i + 2), n, CColumn(l, i)))]
                ELSE CScan(l, n, (pos + 1) + 1,
                        [f EXCEPT !.recs =
                            Append(@, Tuple(Slice(l, i + 2, pos), n,
                                            CColumn(l, i)))])
        ELSE IF PyAt(l, i) \in {"\"", "'"} THEN
            CScan(l, n, i + 1,
                  [f EXCEPT !.state = 1, !.string_start = PyAt(l, i)])
        ELSE CScan(l, n, i + 1, f)
    ELSE IF f.state = 1 THEN
        CScan(l, n, i + 1,
              [f EXCEPT !.state =
                  IF CStringEnds(l, i, f.string_start) THEN 0 ELSE 1])
    ELSE
        LET pos == Find(l, <<"*", "/">>, i)
        IN  IF pos = -1
            THEN [f EXCEPT !.recs = Append(@, Tuple(SliceFrom(l, i), n, i))]
            ELSE CScan(l, n, (pos + 1) + 1,
                    [f EXCEPT !.state = 0, !.recs =
                        Append(@, Tuple(Slice(l, i, pos), n, i))])

\* py_style's while loop; f.raised: `if comment_block` read an unassigned
\* local
RECURSIVE PyScan(_, _, _, _)
PyScan(l, n, i, f) ==
    IF ~(i < Len(l) - 1) THEN f
    ELSE IF f.state = 0 THEN
        IF PyAt(l, i) = "#" THEN
            LET g == [f EXCEPT !.recs =
                        Append(@, Tuple(SliceFrom(l, i + 1), n,
                                        PyColumn(l, i, 1)))]
            IN  IF f.comment_block = Unbound
                THEN [g EXCEPT !.raised = TRUE]
                ELSE PyScan(l, n, i + 1, g)
        ELSE IF PyQuoteAt(l, i) # <<>> THEN
            LET b == PyQuoteAt(l, i)
                pos == Find(l, b, i + 3)
                g == [f EXCEPT !.block_start = b, !.comment_block = "False"]
            IN  IF pos = -1
                THEN [g EXCEPT !.state = 1, !.recs =
                        Append(@, Tuple(SliceFrom(l, i + 3), n,
                                        PyColumn(l, i, 3)))]
                ELSE PyScan(l, n, (pos + 2) + 1,
                        [g EXCEPT !.recs =
                            Append(@, Tuple(Slice(l, i + 3, pos), n,
                                            PyColumn(l, i, 3)))])
        ELSE IF f.comment_block = Unbound THEN [f EXCEPT !.raised = TRUE]
        ELSE PyScan(l, n, i + 1, f)
    ELSE
        LET pos == Find(l, f.block_start, i)
        IN  IF pos = -1
            THEN [f EXCEPT !.recs = Append(@, Tuple(SliceFrom(l, i), n, i))]
            ELSE PyScan(l, n, (pos + 2) + 1,
                    [f EXCEPT !.state = 0, !.recs =
                        Append(@, Tuple(Slice(l, i, pos), n, i))])

\* xml_style's while loop
RECURSIVE XmlScan(_, _, _, _)
XmlScan(l, n, i, f) ==
    IF ~(i < Len(l) - 1) THEN f
    ELSE IF f.state = 0 THEN
        IF StartsAt(l, XmlOpen, i) THEN
            LET pos == Find(l, XmlClose, i + 3)
            IN  IF pos = -1
                THEN [f EXCEPT !.state = 1, !.recs =
                        Append(@, Tuple(SliceFrom(l, i + 4), n,
                                        XmlColumn(l, i)))]
                ELSE XmlScan(l, n, (pos + 2) + 1,
                        [f EXCEPT !.recs =
                            Append(@, Tuple(XmlInlineText(l, i, pos), n,
                                            i + 4))])
        ELSE XmlScan(l, n, i + 1, f)
    ELSE
        LET pos == Find(l, XmlClose, i)
        IN  IF pos = -1
            THEN [f EXCEPT !.recs = Append(@, Tuple(SliceFrom(l, i), n, i))]
            ELSE XmlScan(l, n, (pos + 2) + 1,
                    [f EXCEPT !.state = 0, !.recs =
                        Append(@, Tuple(Slice(l, i, pos), n, i))])

\* the fast path of the function the generators run
FastPath(l, st) ==
    IF fn = "c_style" THEN CFastPath(l, st)
    ELSE IF fn = "py_style" THEN PyFastPath(l, st)
    ELSE XmlFastPath(l, st)

\* faulty variant of TwinEntry: state is one variable the generators share
TwinEntryShared(t) == state

\* the state in which generator t takes a line: its own local
TwinEntry(t) == t.state

\* the body of the for loop of generator t on line l; t.fast = FALSE is the
\* function with its fast path taken out
TwinScan(t, l) ==
    LET f == [state |-> TwinEntry(t), string_start |-> t.string_start,
              block_start |-> t.block_start,
              comment_block |-> t.comment_block,
              recs |-> <<>>, raised |-> FALSE]
    IN  IF t.fast /\ FastPath(l, f.state) THEN f
        ELSE IF fn = "c_style" THEN CScan(l, t.line_num, 0, f)
        ELSE IF fn = "py_style" THEN PyScan(l, t.line_num, 0, f)
        ELSE XmlScan(l, t.line_num, 0, f)

\* what is compared after a line: the state, and in a string the
\* quote that opened it
After(st, q) ==
    [state |-> st, quote |-> IF fn = "c_style" /\ st = 1 THEN q ELSE "none"]

\* a second generator of the same function is created for the same file,
\* with or (c_style) without the fast path, before the first one has read
\* a line
TwinCreate ==
    /\ pc = "for"
    /\ twin.pc = "none"
    /\ \E fast \in (IF fn = "c_style" THEN BOOLEAN ELSE {TRUE}) :
          twin' = [pc |-> "run", fast |-> fast, line_num |-> 1, nread |-> 0,
                   state |-> 0, string_start |-> Unbound,
                   block_start |-> Unbound, comment_block |-> Unbound,
                   queue |-> <<>>, raised |-> FALSE, recs |-> <<>>,
                   after |-> <<>>]
    /\ UNCHANGED <<scan, file, trail>>

\* the second generator reads its next line and runs the loop body on it
TwinLine ==
    /\ twin.pc = "run"
    /\ twin.queue = <<>>
    /\ ~twin.raised
    /\ \E l \in TwinLines :
          /\ IF twin.nread < Len(file.lines)
             THEN l = file.lines[twin.nread + 1]
             ELSE CanGrow
          /\ file' = IF twin.nread < Len(file.lines) THEN file
                     ELSE [file EXCEPT !.lines = Append(@, l)]
          /\ LET f == TwinScan(twin, l)
             IN  twin' =
                    [twin EXCEPT
                        !.nread = @ + 1,
                        !.line_num = IF f.raised THEN @ ELSE @ + 1,
                        !.state = f.state,
                        !.string_start = f.string_start,
                        !.block_start = f.block_start,
                        !.comment_block = f.comment_block,
                        !.queue = f.recs,
                        !.raised = f.raised,
                        !.after = IF f.raised THEN @
                                  ELSE Append(@, After(f.state,
                                                       f.string_start))]
    /\ UNCHANGED <<scan, trail>>

\* the second generator yields the next tuple of its line
TwinYield ==
    /\ twin.pc = "run"
    /\ twin.queue # <<>>
    /\ twin' = [twin EXCEPT !.queue = Tail(@),
                            !.recs = Append(@, Head(twin.queue))]
    /\ UNCHANGED <<scan, file, trail>>

\* the exception leaves the second generator
TwinRaise ==
    /\ twin.pc = "run"
    /\ twin.queue = <<>>
    /\ twin.raised
    /\ twin' = [twin EXCEPT !.pc = "error"]
    /\ UNCHANGED <<scan, file, trail>>

\* the second generator finds no further line and returns
TwinExhausted ==
    /\ twin.pc = "run"
    /\ twin.queue = <<>>
    /\ ~twin.raised
    /\ twin.nread = Len(file.lines)
    /\ twin' = [twin EXCEPT !.pc = "done"]
    /\ file' = [file EXCEPT !.closed = TRUE]
    /\ UNCHANGED <<scan, trail>>

\* a step of the first generator while a second one exists: a line it is
\* the first to read becomes the next line of the one file, the file ends
\* for it where it ends for the other, and what it yields and the state it
\* leaves a line in are recorded
Shared ==
    /\ pc \notin {"check_file", "start"} => twin.pc # "none"
    /\ (pc' = "done" /\ pc # "done") => nread = Len(file.lines)
    /\ file' =
          IF nread' # nread /\ ~(nread < Len(file.lines))
          THEN [file EXCEPT !.lines = Append(@, line')]
          ELSE IF pc' = "done" THEN [file EXCEPT !.closed = TRUE]
          ELSE file
    /\ trail' =
          [recs |-> IF Len(yielded') > Len(yielded)
                    THEN Append(trail.recs,
                                Tuple(yielded'[Len(yielded')].text,
                                      yielded'[Len(yielded')].line,
                                      yielded'[Len(yielded')].column))
                    ELSE trail.recs,
           after |-> IF pc' = "eol" /\ pc # "eol"
                     THEN Append(trail.after, After(state', string_start'))
                     ELSE trail.after]
    /\ UNCHANGED twin

\* ---------------------------------------------------------------- properties
\* the scan of `line` is over (its tuples are all in yielded)
LineDone == pc \in {"eol", "done"} /\ line # <<>>

\* number of tab characters in the line
Tabs(l) == Count(l, "\t", 0, Len(l))

\* C1: in each scanner the line numbers of the yielded tuples never
\* decrease, every tuple carries the 1-based position in the file of the
\* line its text was cut from, and line_num counts every line read once,
\* whether the fast path skipped it, a break left it or the while loop ran
\* to its end.
LineNumbersArePositions ==
    /\ \A i \in 1..Len(yielded) : yielded[i].line = yielded[i].phys
    /\ \A i \in 1..(Len(yielded) - 1) : yielded[i].line <= yielded[i + 1].line
    /\ yielded # <<>> => last <= yielded[1].line
    /\ pc = "while" => line_num = nread
    /\ pc \in {"for", "eol"} => line_num = nread + 1

\* a tuple from the third line, the tuple before it being from the first
ThirdLineAfterGap ==
    /\ fn = "c_style"
    /\ nread = 3
    /\ last = 1
    /\ yielded # <<>>
    /\ yielded[1].line = 3

\* C2: every yielded column lies between 0 and the tab-expanded length of
\* its line, len(line) + tabs * (SPACES_FOR_TAB - 1), for each tab width.
ColumnWithinExpandedLine ==
    \A i \in 1..Len(yielded) :
        /\ 0 <= yielded[i].column
        /\ yielded[i].column <= Len(line) + Tabs(line) * (SPACES_FOR_TAB - 1)

\* a column beyond the raw length of its line
ColumnBeyondRawLength ==
    \E i \in 1..Len(yielded) : yielded[i].column > Len(line)

\* C3 as stated: every yielded column lies between 0 and the raw length of
\* its line.
ColumnWithinRawLine ==
    \A i \in 1..Len(yielded) :
        0 <= yielded[i].column /\ yielded[i].column <= Len(line)

\* C3 amended: the column lies between 0 and the raw length of its line
\* when the line holds no tab or SPACES_FOR_TAB is 1.
ColumnWithinRawLineNoTab ==
    (Tabs(line) = 0 \/ SPACES_FOR_TAB = 1) =>
        \A i \in 1..Len(yielded) :
            0 <= yielded[i].column /\ yielded[i].column <= Len(line)

\* a tuple whose column is the raw length of its tab-free line
ColumnAtRawLength ==
    /\ Tabs(line) = 0
    /\ \E i \in 1..Len(yielded) : yielded[i].column = Len(line)

\* C4: the texts of two tuples from one line cover disjoint ranges of the
\* line (an empty text covers nothing).
RecordsDisjoint ==
    \A i, j \in 1..Len(yielded) :
        i < j =>
            \/ yielded[i].text = <<>>
            \/ yielded[j].text = <<>>
            \/ yielded[i].at + Len(yielded[i].text) <= yielded[j].at
            \/ yielded[j].at + Len(yielded[j].text) <= yielded[i].at

\* C5, the step: c_style in state 0 at a `//` yields one tuple, the rest of
\* the line after the `//`, with the line's number and the tab-corrected
\* column of index + 2, and leaves the line in state 0.
SlashesStep ==
    (fn = "c_style" /\ pc = "while" /\ index < Len(line) - 1 /\ state = 0
     /\ line[index + 1] = "/" /\ line[index + 2] = "/")
    => /\ Len(yielded') = Len(yielded) + 1
       /\ SubSeq(yielded', 1, Len(yielded)) = yielded
       /\ LET r == yielded'[Len(yielded')]
          IN  /\ r.text = SubSeq(line, index + 3, Len(line))
              /\ r.line = nread
              /\ r.column = (index + 2)
                    + Cardinality({k \in 1..(index + 2) : line[k] = "\t"})
                      * (SPACES_FOR_TAB - 1)
       /\ pc' = "eol"
       /\ state' = 0
       /\ line' = line

\* C5, the outcome: a `//` tuple is the last of its line, and the line
\* `foo(); // hello` read in state 0 gives the one tuple (" hello", its
\* line number, 9)
SlashesOutcome ==
    /\ \A i \in 1..Len(yielded) :
          (fn = "c_style" /\ yielded[i].kind = "//")
          => (i = Len(yielded) /\ LineDone /\ state = 0)
    /\ (fn = "c_style" /\ line = CLineHello /\ entry = 0 /\ LineDone)
       => /\ Len(yielded) = 1
          /\ yielded[1].text = <<" ", "h", "e", "l", "l", "o">>
          /\ yielded[1].line = nread
          /\ yielded[1].column = 9

\* C5: in c_style a `//` met in state 0 yields exactly one tuple (the rest
\* of the line verbatim, the line's number, the tab-corrected column of
\* index + 2), nothing more is yielded from that line and the state stays 0.
LineCommentRecord == []SlashesOutcome /\ [][SlashesStep]_vars

\* `foo(); // hello` scanned in state 0
HelloScanned ==
    /\ fn = "c_style"
    /\ line = CLineHello
    /\ entry = 0
    /\ LineDone
    /\ Len(yielded) = 1

\* C6: every line of a c_style block comment that goes on from an earlier
\* line yields exactly one tuple for the comment, with that line's number
\* and starting at the first character of the line.
BlockLinesEachYield ==
    (fn = "c_style" /\ entry = 2 /\ LineDone)
    => /\ Cardinality({i \in 1..Len(yielded) :
                          yielded[i].kind \in {"block", "close"}}) = 1
       /\ yielded[1].line = nread
       /\ yielded[1].at = 0

\* index of the first quote character of the line, -1 if it has none
FirstQuote(l) ==
    LET S == {i \in 0..(Len(l) - 1) : l[i + 1] \in {"\"", "'"}}
    IN  IF S = {} THEN -1 ELSE Min(S)

\* index of the first character after index q that equals the quote at q
\* and does not follow a backslash, -1 if there is none
ClosingQuote(l, q) ==
    LET S == {j \in (q + 1)..(Len(l) - 1) : l[j + 1] = l[q + 1] /\ l[j] # "\\"}
    IN  IF S = {} THEN -1 ELSE Min(S)

\* a `//` or `/*` begins before index q
MarkerBefore(l, q) ==
    \E i \in 0..(q - 1) :
        l[i + 1] = "/" /\ i + 2 <= Len(l) /\ l[i + 2] \in {"/", "*"}

HashLineYieldsOne ==
    (/\ fn = "py_style"
     /\ comment_block = Unbound
     /\ pc \in {"eol", "done", "error"}
     /\ Count(line, "#", 0, Len(line)) = 1
     /\ 0 < Find(line, Hash, 0)
     /\ Find(line, Hash, 0) < Len(line) - 1
     /\ ~Contains(line, Single3)
     /\ ~Contains(line, Double3))
    => /\ pc # "error"
       /\ Len(yielded) = 1
       /\ yielded[1].text = SubSeq(line, Find(line, Hash, 0) + 2, Len(line))
       /\ yielded[1].line = nread

\* xml_style is in state 0 at a `<!--` whose `-->` is on the same line
XmlInlineCase ==
    /\ fn = "xml_style" /\ pc = "while" /\ index < Len(line) - 1 /\ state = 0
    /\ StartsAt(line, XmlOpen, index)
    /\ Find(line, XmlClose, index + 3) # -1

\* C9 as stated, the step: the tuple's text is the line from index + 4 to
\* its end and still holds `-->`; the state stays 0 and the scan goes on
\* after the closing marker.
XmlInlineStepAsStated ==
    XmlInlineCase
    => /\ Len(yielded') = Len(yielded) + 1
       /\ LET r == yielded'[Len(yielded')]
          IN  /\ r.text = SubSeq(line, index + 5, Len(line))
              /\ Contains(r.text, XmlClose)
       /\ state' = 0
       /\ pc' = "while"
       /\ index' = Find(line, XmlClose, index + 3) + 3

\* C9 amended, the step: the text still holds `-->` when the closing marker
\* begins at index + 4 or later (it may begin at index + 3, on the last
\* `-` of the `<!--`).
XmlInlineStep ==
    XmlInlineCase
    => /\ Len(yielded') = Len(yielded) + 1
       /\ LET r == yielded'[Len(yielded')]
          IN  /\ r.text = SubSeq(line, index + 5, Len(line))
              /\ (Find(line, XmlClose, index + 3) >= index + 4
                  => Contains(r.text, XmlClose))
       /\ state' = 0
       /\ pc' = "while"
       /\ index' = Find(line, XmlClose, index + 3) + 3

\* the line `<!-- hi -->` read in state 0 gives one tuple whose text begins
\* " hi -->"
XmlHiOutcome ==
    (fn = "xml_style" /\ line = XmlLineHi /\ entry = 0 /\ LineDone)
    => /\ Len(yielded) = 1
       /\ SubSeq(yielded[1].text, 1, 7) = <<" ", "h", "i", " ", "-", "-", ">">>

\* C9 as stated: a `<!--` closed on its line yields the line from
\* index + 4 to its end, which still holds `-->`.
XmlInlineRecordAsStated == [][XmlInlineStepAsStated]_vars

\* C9 amended: a `<!--` closed on its line yields the line from index + 4
\* to its end, not cut at the closing marker (so it still holds `-->`
\* unless the closing marker begins on the last `-` of the `<!--`); the
\* state stays 0 and the scan goes on after the closing marker; the line
\* `<!-- hi -->` yields exactly one tuple whose text begins " hi -->".
XmlInlineRecord == []XmlHiOutcome /\ [][XmlInlineStep]_vars

\* `<!-- hi -->` scanned in state 0
XmlHiScanned ==
    /\ fn = "xml_style"
    /\ line = XmlLineHi
    /\ entry = 0
    /\ LineDone
    /\ Len(yielded) = 1

\* the path ends in the ending e, upper and lower case alike
HasEnding(path, e) == \E v \in CaseVariants(e) : EndsWith(path, v)

\* the scanner the ending of the path stands for
ScannerFor(path) ==
    IF HasEnding(path, <<".", "p", "y">>) THEN "py_style"
    ELSE IF \/ HasEnding(path, <<".", "c">>)
            \/ HasEnding(path, <<".", "c", "p", "p">>)
            \/ HasEnding(path, <<".", "h">>) THEN "c_style"
    ELSE IF \/ HasEnding(path, <<".", "x", "m", "l">>)
            \/ HasEnding(path, <<".", "h", "t", "m", "l">>)
            \/ HasEnding(path, <<".", "h", "t", "m">>) THEN "xml_style"
    ELSE "None"

\* C10: check_file returns the scanner that the ending of the path stands
\* for, upper and lower case alike (.py: py_style; .c, .cpp, .h: c_style;
\* .xml, .html, .htm: xml_style), and None for every other path, without
\* raising: a.PY and a.py give py_style, a.rs gives None.
DispatchBySuffix ==
    /\ pc \in {"start", "returned"}
       => /\ fn = ScannerFor(src_file)
          /\ (pc = "returned") = (fn = "None")
    /\ (pc # "check_file" /\ src_file \in {<<"a", ".", "P", "Y">>,
                                           <<"a", ".", "p", "y">>})
       => (fn = "py_style" /\ pc = "start")
    /\ (pc # "check_file" /\ src_file = <<"a", ".", "r", "s">>)
       => (fn = "None" /\ pc = "returned")

\* check_file has returned py_style for a.PY
UpperCaseDispatched ==
    /\ pc = "start"
    /\ src_file = <<"a", ".", "P", "Y">>
    /\ fn = "py_style"

\* c_style has scanned the line "\tfoo // bar", read in state 0, with
\* SPACES_FOR_TAB = 4, and has yielded for its `//`
TabLineScanned ==
    /\ fn = "c_style"
    /\ SPACES_FOR_TAB = DefaultTab
    /\ LineDone
    /\ line = CLineTab
    /\ entry = 0
    /\ Len(yielded) = 1

\* C12 as stated: for "\tfoo // bar" and tab width 4 the column of the `//`
\* tuple is the raw index of `b` plus 3
TabLineColumnFromB ==
    TabLineScanned =>
        yielded[1].column = Find(line, <<"b">>, 0) + 3

\* C12: for "\tfoo // bar" and tab width 4 the column of the `//` tuple is
\* the raw index of the first character after `//` (the space) plus 3, one
\* tab before it counting as 4 columns: 7 + 3 = 10
TabLineColumn ==
    TabLineScanned =>
        /\ yielded[1].text = <<" ", "b", "a", "r">>
        /\ yielded[1].column = (Find(line, <<"/", "/">>, 0) + 2) + 3
        /\ yielded[1].column = Find(line, <<"b">>, 0) + 2

\* the tuple of "\tfoo // bar" has column 10 at tab width 4
TabLineColumnTen ==
    /\ TabLineScanned
    /\ yielded[1].column = 10

\* C13: no scanner raises because of what the input holds: no exception
\* ever leaves a generator
NoScannerRaises == pc # "error"

\* C14: every scan ends by exhaustion of its generator: once the generator
\* is created, the for loop eventually finds no further line and the
\* generator returns
ScanExhausts == (pc = "start") ~> (pc = "done")

\* C16: once py_style has yielded for a `#` met in state 0, it yields
\* nothing more from that line, whatever follows the `#`, and it is in
\* state 0 when the line is finished
HashEndsLine ==
    fn = "py_style" =>
        \A i \in 1..Len(yielded) :
            yielded[i].kind = "#" =>
                /\ i = Len(yielded)
                /\ state = 0

\* C17: every tuple's column is r + (number of tabs in line[0:r]) *
\* (SPACES_FOR_TAB - 1), r the raw index of the first character of its text
ColumnIsExpandedIndex ==
    \A i \in 1..Len(yielded) :
        yielded[i].column =
            yielded[i].at +
            Count(line, "\t", 0, yielded[i].at) * (SPACES_FOR_TAB - 1)

\* the indices of line that hold a quote character
QuotesOf(l) == {j \in 0..(Len(l) - 1) : PyAt(l, j) \in {"\"", "'"}}

\* C18: a string open when c_style reads a line ends at the first character
\* equal to the quote that opened it and not preceded by a backslash: when
\* that quote is the only quote character of the line, the scanner has left
\* state 1 when the line is finished
StringEndsAtQuote ==
    (/\ fn = "c_style"
     /\ LineDone
     /\ entry = 1
     /\ \E j \in QuotesOf(line) :
           /\ QuotesOf(line) = {j}
           /\ PyAt(line, j) = string_start
           /\ (j = 0 \/ PyAt(line, j - 1) # "\\"))
    => state # 1

\* the state of fn in which a block comment is open
BlockState == IF fn = "c_style" THEN 2 ELSE 1

\* C19: a scanner is in its block state inside the while loop only at index
\* 0 of a line, so a continuation tuple is the first tuple of its line, has
\* column 0 and a text that starts at the first character of the line, and
\* a line gives at most one of them
ContinuationAtLineStart ==
    /\ (pc = "while" /\ state = BlockState) => index = 0
    /\ \A i \in 1..Len(yielded) :
          yielded[i].kind \in {"block", "close"} =>
              /\ i = 1
              /\ yielded[i].at = 0
              /\ yielded[i].column = 0
              /\ yielded[i].text = Slice(line, 0, Len(yielded[i].text))

\* a line that starts with a tab was read inside a block comment and its
\* tuple has column 0
TabbedContinuation ==
    /\ LineDone
    /\ entry = BlockState
    /\ PyAt(line, 0) = "\t"
    /\ Len(yielded) >= 1
    /\ yielded[1].kind \in {"block", "close"}
    /\ yielded[1].column = 0

\* C20: of two tuples yielded one after the other with the same line
\* number, the later one has the strictly greater column
ColumnsIncrease ==
    \A i \in 1..(Len(yielded) - 1) :
        yielded[i].line = yielded[i + 1].line =>
            yielded[i].column < yielded[i + 1].column

\* c_style has yielded two tuples for "/**/\t\t/**/", the tabs lying
\* between them, at a tab width above 1
TwoTuplesAcrossTabs ==
    /\ fn = "c_style"
    /\ LineDone
    /\ line = CLineTabsBetween
    /\ SPACES_FOR_TAB > 1
    /\ Len(yielded) = 2
    /\ yielded[2].column = yielded[2].at + 2 * (SPACES_FOR_TAB - 1)

\* the tuples two generators have yielded agree as far as both have got
SameTuplesSoFar ==
    \A k \in DOMAIN trail.recs \cap DOMAIN twin.recs :
        trail.recs[k] = twin.recs[k]

\* C11: two generators of one function over the same file, with the same
\* SPACES_FOR_TAB, yield the same tuples in the same order however their
\* steps are interleaved, and end the same way
TwinsAgree ==
    (twin.pc # "none" /\ twin.fast) =>
        /\ SameTuplesSoFar
        /\ (pc \in {"done", "error"} /\ twin.pc \in {"done", "error"}) =>
              /\ pc = twin.pc
              /\ trail.recs = twin.recs

\* both generators are exhausted and each has yielded the same two tuples
\* or more
TwinsExhausted ==
    /\ pc = "done"
    /\ twin.pc = "done"
    /\ twin.fast
    /\ Len(trail.recs) >= 2
    /\ trail.recs = twin.recs

\* C15: c_style with its fast path and c_style without it yield the same
\* tuples and are in the same state (0, 1 with the same quote, or 2) after
\* every line
FastPathOnlyFaster ==
    (twin.pc # "none" /\ ~twin.fast) =>
        /\ SameTuplesSoFar
        /\ \A k \in DOMAIN trail.after \cap DOMAIN twin.after :
              trail.after[k] = twin.after[k]

\* ------------------------------------------------------------ specification
\* one generator is created and run on its own
Alone == UNCHANGED <<file, trail, twin>>

Next ==
    \/ check_file /\ Alone
    \/ Open /\ Alone
    \/ c_style_skip /\ Alone
    \/ c_style_line /\ Alone
    \/ c_style_end /\ Alone
    \/ c_style_slashes /\ Alone
    \/ c_style_open /\ Alone
    \/ c_style_inline /\ Alone
    \/ c_style_quote /\ Alone
    \/ c_style_code /\ Alone
    \/ c_style_string /\ Alone
    \/ c_style_block /\ Alone
    \/ c_style_close /\ Alone
    \/ py_style_skip /\ Alone
    \/ py_style_line /\ Alone
    \/ py_style_end /\ Alone
    \/ py_style_hash /\ Alone
    \/ py_style_hash_raise /\ Alone
    \/ py_style_open /\ Alone
    \/ py_style_inline /\ Alone
    \/ py_style_code /\ Alone
    \/ py_style_code_raise /\ Alone
    \/ py_style_block /\ Alone
    \/ py_style_close /\ Alone
    \/ xml_style_skip /\ Alone
    \/ xml_style_line /\ Alone
    \/ xml_style_end /\ Alone
    \/ xml_style_open /\ Alone
    \/ xml_style_inline /\ Alone
    \/ xml_style_text /\ Alone
    \/ xml_style_block /\ Alone
    \/ xml_style_close /\ Alone
    \/ Continue /\ Alone
    \/ Exhausted /\ Alone

Spec == Init /\ [][Next]_vars

\* the consumer iterates to the end (`for comm in check_file(src_file_path)`):
\* a step that can be taken is taken
FairSpec == Spec /\ WF_vars(Next)

\* two generators of the same function over the same file, the consumer
\* calling next() on either in any order
NextTwo ==
    \/ check_file /\ Shared
    \/ Open /\ Shared
    \/ c_style /\ Shared
    \/ py_style /\ Shared
    \/ xml_style /\ Shared
    \/ Continue /\ Shared
    \/ Exhausted /\ Shared
    \/ TwinCreate
    \/ TwinLine
    \/ TwinYield
    \/ TwinRaise
    \/ TwinExhausted

SpecTwo == Init /\ [][NextTwo]_vars

====
